---- MODULE Spec2Model ----
(***************************************************************************)
(* CAN channel adapters of pykiso: CCPCanCan (cc_pcan_can.py) and          *)
(* CCVectorCan (cc_vector_can.py).                                         *)
(*                                                                         *)
(* One channel instance is modelled.  Its backend and configuration are    *)
(* chosen in Init and never change.  Every call of the channel contract    *)
(* (_cc_open, _cc_close, _cc_send, _cc_receive, __del__) is one action;    *)
(* the outcome of every call into the bus SDK, the diagnostic SDK and the  *)
(* file system is an input of the action.                                  *)
(*                                                                         *)
(* Specifications: Spec (life cycle of both backends), SpecMerge and       *)
(* SpecRemerge (trace merge over every trace directory), SpecMergeSteps    *)
(* (the merge one file operation at a time), SpecFix                       *)
(* (_fix_message_numbers over every shape of line), SpecIO (send and       *)
(* receive over every frame configuration), SpecInit (__init__ over every  *)
(* trace path and trace size).                                             *)
(***************************************************************************)
EXTENDS Integers, Sequences, FiniteSets, TLC

\* ------------------------------------------------------------------------
\* Bounds of the model
\* ------------------------------------------------------------------------
\* Number of _cc_open calls explored on the instance.
MaxOpens == 2
\* Number of segment files the hardware logger writes.
MaxSegs == 2
\* Number of body lines of a segment file written by the hardware logger.
SegBodyLen == 2

\* ------------------------------------------------------------------------
\* Program constants
\* ------------------------------------------------------------------------
\* Python's None, for every optional field and argument; a value x that is
\* present is Some(x).
None == <<>>
Some(x) == <<x>>
\* self.timeout, in microseconds (1e-6 s).
ChannelTimeout == 1
\* Default of the timeout parameter of _cc_receive, in microseconds.
ReceiveDefaultTimeout == 100
\* Default trace size (MB); the size step is skipped for this value.
DefaultTraceSize == 10
\* first_message_line: number of header lines of a trace file.
first_message_line == 33
\* message_nb_index: width of the message-number field of a body line.
message_nb_index == 7

VARIABLES
    backend,            \* "pcan" (CCPCanCan) or "vector" (CCVectorCan)
    logging_activated,  \* self.logging_activated
    trace_path,         \* self.trace_path: None or a path
    trace_name,         \* self.trace_name: None or the fixed file name
    trace_size,         \* self.trace_size
    remote_id,          \* self.remote_id
    is_fd,              \* self.is_fd (CCPCanCan), self.fd (CCVectorCan)
    is_extended_id,     \* self.is_extended_id
    enable_brs,         \* self.enable_brs (CCPCanCan)
    ctor,               \* the trace_path and trace_size arguments of __init__,
                        \* and whether _initialize_trace has run and raised
    bus,                \* self.bus: None or the id of a bus session
    raw_pcan_interface, \* self.raw_pcan_interface: None or a handle id
    trc_count,          \* self.trc_count
    deleted,            \* __del__ has run
    \* --- the world outside the instance ---
    live,               \* bus sessions constructed and not yet shut down
    nbus,               \* number of _cc_open calls made so far
    traceActive,        \* the hardware logger is tracing
    files,              \* trace directory: file name -> [mtime, lines]
    clock,              \* file-system time
    nsegs,              \* segment files written by the hardware logger
    \* --- observation of the calls ---
    last,               \* the last call, its inputs and its outcome
    diagAcquired,       \* PCANBasic() objects created so far
    diagCleared,        \* closes that dropped a held diagnostic handle
    activations,        \* SetValue(PCAN_TRACE_STATUS, ON) calls that returned OK
    merge,              \* what __del__'s _merge_trc did
    orphaned            \* sessions whose handle an open replaced while they were live

config == <<backend, logging_activated, trace_path, trace_name, trace_size, remote_id,
            is_fd, is_extended_id, enable_brs, ctor>>
fsvars == <<files, clock, nsegs>>
vars == <<backend, logging_activated, trace_path, trace_name, trace_size, remote_id,
          is_fd, is_extended_id, enable_brs, ctor, bus,
          raw_pcan_interface, trc_count, deleted, live, nbus, traceActive,
          files, clock, nsegs, last, diagAcquired, diagCleared, activations,
          merge, orphaned>>

\* ------------------------------------------------------------------------
\* Text: a line is a sequence of characters, a file a sequence of lines
\* ------------------------------------------------------------------------
DigitChar == <<"0", "1", "2", "3", "4", "5", "6", "7", "8", "9">>

\* str(n) for n >= 0
RECURSIVE str(_)
str(n) == IF n < 10 THEN <<DigitChar[n + 1]>>
          ELSE str(n \div 10) \o <<DigitChar[(n % 10) + 1]>>

RECURSIVE Spaces(_)
Spaces(n) == IF n <= 0 THEN <<>> ELSE <<" ">> \o Spaces(n - 1)

\* s.rjust(width): left-padded with spaces, never truncated
rjust(s, width) == Spaces(width - Len(s)) \o s

\* s[i:] of Python, i >= 0
SliceFrom(s, i) == IF i >= Len(s) THEN <<>> ELSE SubSeq(s, i + 1, Len(s))

SliceLast_head(s, k) == SubSeq(s, 1, IF k < Len(s) THEN k ELSE Len(s))

\* s[-k:] of Python, k >= 0.  -0 is 0, so s[-0:] is the whole of s.
SliceLast(s, k) ==
    IF k = 0 THEN s
    ELSE IF k >= Len(s) THEN s
    ELSE SubSeq(s, Len(s) - k + 1, Len(s))

EndsLine(l) == Len(l) > 0 /\ l[Len(l)] = "\n"

\* What read().splitlines(True) returns for a file into which the strings
\* ls were written one after the other: a string that does not end its
\* line runs into the next one, an empty string leaves no line.
RECURSIVE JoinLines(_, _)
JoinLines(acc, ls) ==
    IF ls = <<>> THEN acc
    ELSE LET l == Head(ls) IN
         IF l = <<>> THEN JoinLines(acc, Tail(ls))
         ELSE IF acc # <<>> /\ ~EndsLine(acc[Len(acc)])
              THEN JoinLines([acc EXCEPT ![Len(acc)] = @ \o l], Tail(ls))
              ELSE JoinLines(Append(acc, l), Tail(ls))

splitlines(ls) == JoinLines(<<>>, ls)

\* The characters of a file whose lines are ls.
RECURSIVE Chars(_)
Chars(ls) == IF ls = <<>> THEN <<>> ELSE Head(ls) \o Chars(Tail(ls))

RECURSIVE TotalLen(_)
TotalLen(ls) == IF ls = <<>> THEN 0 ELSE Len(Head(ls)) + TotalLen(Tail(ls))

\* The characters cs cut into strings after every "\n".
RECURSIVE LinesOf(_, _)
LinesOf(cs, cur) ==
    IF cs = <<>> THEN (IF cur = <<>> THEN <<>> ELSE <<cur>>)
    ELSE IF Head(cs) = "\n" THEN <<Append(cur, "\n")>> \o LinesOf(Tail(cs), <<>>)
    ELSE LinesOf(Tail(cs), Append(cur, Head(cs)))

\* seek(0) and writelines(new) on a file that held old, without truncate:
\* what lies beyond the characters written stays in the file.
Overwritten(old, new) ==
    IF TotalLen(new) >= TotalLen(old) THEN splitlines(new)
    ELSE splitlines(new \o LinesOf(SliceFrom(Chars(old), TotalLen(new)), <<>>))

\* ------------------------------------------------------------------------
\* The trace directory
\* ------------------------------------------------------------------------
\* Names the hardware logger gives its segment files (date and time based).
SegNames == <<"s1.trc", "s2.trc", "s3.trc", "s4.trc">>

Suffix(name) == IF name = "notes.txt" THEN ".txt" ELSE ".trc"

HeaderLine(tag, j) == <<";", tag>> \o str(j) \o <<"\n">>
BodyLine(tag, i) == rjust(str(i), message_nb_index) \o <<")", tag>> \o str(i) \o <<"\n">>

\* A trace file as the hardware logger writes it: the header, then n
\* numbered body lines.
TraceLines(tag, n) ==
    [j \in 1..(first_message_line + n) |->
        IF j <= first_message_line THEN HeaderLine(tag, j)
        ELSE BodyLine(tag, j - first_message_line)]

File(mtime, lines) == [mtime |-> mtime, lines |-> lines]

Exists(fs, name) == name \in DOMAIN fs

\* self.trace_path.glob("*.trc")
glob(fs) == {n \in DOMAIN fs : Suffix(n) = ".trc"}

\* sorted(names, key=os.path.getmtime)
RECURSIVE sorted(_, _)
sorted(fs, names) ==
    IF names = {} THEN <<>>
    ELSE LET first == CHOOSE n \in names : \A m \in names : fs[n].mtime <= fs[m].mtime
         IN <<first>> \o sorted(fs, names \ {first})

Restrict(f, S) == [x \in S |-> f[x]]

\* A file-system world: the directory, the time, and the error raised by
\* the last operation ("" when none was raised).
World(fs, clk) == [files |-> fs, clock |-> clk, exc |-> ""]

\* Path.rename(dst): replaces an existing dst on POSIX, raises on Windows;
\* the modification time moves with the file.
rename(w, src, dst, posix) ==
    IF ~Exists(w.files, src) THEN [w EXCEPT !.exc = "FileNotFoundError"]
    ELSE IF src = dst THEN w
    ELSE IF Exists(w.files, dst) /\ ~posix THEN [w EXCEPT !.exc = "FileExistsError"]
    ELSE [w EXCEPT !.files =
            [n \in (DOMAIN w.files \ {src}) \cup {dst} |->
                IF n = dst THEN w.files[src] ELSE w.files[n]]]

\* with open(name, "a") as f: f.writelines(ls)
append(w, name, ls) ==
    IF Exists(w.files, name) /\ ls = <<>> THEN w
    ELSE LET old == IF Exists(w.files, name) THEN w.files[name].lines ELSE <<>>
             new == File(w.clock, splitlines(old \o ls))
         IN [w EXCEPT !.files = [n \in DOMAIN w.files \cup {name} |->
                                    IF n = name THEN new ELSE w.files[n]],
                      !.clock = @ + 1]

\* os.remove(name)
remove(w, name) ==
    IF ~Exists(w.files, name) THEN [w EXCEPT !.exc = "FileNotFoundError"]
    ELSE [w EXCEPT !.files = Restrict(w.files, DOMAIN w.files \ {name})]

\* ------------------------------------------------------------------------
\* CCPCanCan._fix_message_numbers
\* ------------------------------------------------------------------------
\* The line at 0-based index line_number (1-based j = line_number + 1).
FixedLine_from_zero(line, j, first) ==
    rjust(str(j - first - 1), message_nb_index) \o SliceFrom(line, message_nb_index)

FixedLine(line, j, first) ==
    rjust(str(j - first), message_nb_index) \o SliceFrom(line, message_nb_index)

_fix_message_numbers(w, merged_trace, first) ==
    IF ~Exists(w.files, merged_trace) THEN [w EXCEPT !.exc = "FileNotFoundError"]
    ELSE LET merged_data_lines == w.files[merged_trace].lines
             fixed == [j \in 1..Len(merged_data_lines) |->
                          IF j > first THEN FixedLine(merged_data_lines[j], j, first)
                          ELSE merged_data_lines[j]]
         IN IF merged_data_lines = <<>> THEN w
            ELSE [w EXCEPT !.files[merged_trace] =
                              File(w.clock, Overwritten(merged_data_lines, fixed)),
                           !.clock = @ + 1]

\* ------------------------------------------------------------------------
\* CCPCanCan._merge_trc
\* ------------------------------------------------------------------------
\* for file in list_of_traces: read, append the lines after the header to
\* result_trace, remove the file.
RECURSIVE AppendTraces_header_plus_one(_, _, _)
AppendTraces_header_plus_one(w, result_trace, list_of_traces) ==
    IF list_of_traces = <<>> \/ w.exc # "" THEN w
    ELSE LET file == Head(list_of_traces) IN
         IF ~Exists(w.files, file) THEN [w EXCEPT !.exc = "FileNotFoundError"]
         ELSE LET data == w.files[file].lines
                  w1 == append(w, result_trace,
                               SliceFrom(data, first_message_line + 1))
              IN AppendTraces_header_plus_one(remove(w1, file), result_trace,
                                              Tail(list_of_traces))

RECURSIVE AppendTraces(_, _, _)
AppendTraces(w, result_trace, list_of_traces) ==
    IF list_of_traces = <<>> \/ w.exc # "" THEN w
    ELSE LET file == Head(list_of_traces) IN
         IF ~Exists(w.files, file) THEN [w EXCEPT !.exc = "FileNotFoundError"]
         ELSE LET data == w.files[file].lines
                  w1 == append(w, result_trace, SliceFrom(data, first_message_line))
              IN AppendTraces(remove(w1, file), result_trace, Tail(list_of_traces))

\* The result also reports the files selected and the merge target.
_merge_trc(fs, clk, count, name, posix) ==
    LET list_of_traces == SliceLast(sorted(fs, glob(fs)), count)
        w0 == World(fs, clk)
    IN IF list_of_traces = <<>>
       THEN \* IndexError, caught: "No trace to merge"
            [files |-> fs, clock |-> clk, exc |-> "",
             selected |-> <<>>, target |-> None]
       ELSE LET result_trace == IF name = None THEN list_of_traces[1] ELSE name[1]
                w1 == IF name = None THEN w0
                      ELSE rename(w0, list_of_traces[1], result_trace, posix)
                w2 == AppendTraces(w1, result_trace, Tail(list_of_traces))
                w3 == IF w2.exc # "" THEN w2
                      ELSE _fix_message_numbers(w2, result_trace, first_message_line)
            IN [files |-> w3.files, clock |-> w3.clock, exc |-> w3.exc,
                selected |-> list_of_traces, target |-> Some(result_trace)]

\* ------------------------------------------------------------------------
\* Observation of a call
\* ------------------------------------------------------------------------
\* op: the call; raised: it raised to its caller; held: self.bus was set
\* when it was called; the other fields are the outcomes of the SDK calls
\* it made ("-" for a call that was not made).
Call == [op |-> "init", raised |-> FALSE, held |-> FALSE,
         bus_out |-> "-", diag |-> "-", cfg |-> "-", kind |-> "-", log |-> <<>>,
         shutdown |-> "-", uninit |-> "-",
         arbitration_id |-> None, wait |-> None, result |-> "-",
         policy |-> "-", rid |-> None, flags |-> <<>>, recv |-> "-", parse |-> "-",
         timeout |-> None]

\* ------------------------------------------------------------------------
\* pathlib
\* ------------------------------------------------------------------------
\* The characters of the names used as path components.
Spelling(n) ==
    CASE n = "logs"      -> <<"l", "o", "g", "s">>
      [] n = "logs.d"    -> <<"l", "o", "g", "s", ".", "d">>
      [] n = "v1.2"      -> <<"v", "1", ".", "2">>
      [] n = "log.trc"   -> <<"l", "o", "g", ".", "t", "r", "c">>
      [] n = "run.1.trc" -> <<"r", "u", "n", ".", "1", ".", "t", "r", "c">>
      [] n = "log.TRC"   -> <<"l", "o", "g", ".", "T", "R", "C">>
      [] n = "log.txt"   -> <<"l", "o", "g", ".", "t", "x", "t">>
      [] n = ".trc"      -> <<".", "t", "r", "c">>
      [] OTHER           -> <<>>

\* Path(s): a relative path of the given components; Path("") is Path("."),
\* which has no component.
Path(parts) == [abs |-> FALSE, parts |-> parts]

\* Path.cwd()
cwd == [abs |-> TRUE, parts |-> <<"cwd">>]

\* The directory a path names while the working directory is cwd.
resolve(p) == IF p.abs THEN p ELSE [abs |-> TRUE, parts |-> cwd.parts \o p.parts]

\* p.name: the last component, "" for a path without components
PathName(p) == IF p.parts = <<>> THEN "" ELSE p.parts[Len(p.parts)]

parent_same(p) == p

\* p.parent
parent(p) ==
    IF p.parts = <<>> THEN p
    ELSE [p EXCEPT !.parts = SubSeq(p.parts, 1, Len(p.parts) - 1)]

\* name.rfind("."), 1-based; 0 when there is no dot
RECURSIVE rfind_dot(_, _)
rfind_dot(cs, i) == IF i = 0 THEN 0 ELSE IF cs[i] = "." THEN i ELSE rfind_dot(cs, i - 1)

\* p.suffix: from the last dot of the name on, unless that dot is the first
\* or the last character of the name
suffix(p) ==
    LET cs == Spelling(PathName(p))
        i == rfind_dot(cs, Len(cs))
    IN IF 1 < i /\ i < Len(cs) THEN SubSeq(cs, i, Len(cs)) ELSE <<>>

\* bool(p): pathlib paths define neither __bool__ nor __len__
Truthy(p) == TRUE

\* ------------------------------------------------------------------------
\* CCPCanCan._initialize_trace
\* ------------------------------------------------------------------------
MaxTraceSize == 100

TrcSuffix == <<".", "t", "r", "c">>

CheckedTraceSize_zero_allowed(size) ==
    IF ~(0 <= size /\ size <= MaxTraceSize) THEN DefaultTraceSize ELSE size

\* if not 0 < self.trace_size <= 100: self.trace_size = 10
CheckedTraceSize(size) ==
    IF ~(0 < size /\ size <= MaxTraceSize) THEN DefaultTraceSize ELSE size

\* path is self.trace_path as __init__ set it (Path(trace_path)), size is
\* self.trace_size.  The result: the fields after the call and the
\* exception raised ("" for none).  trace_name stays unset (None here) when
\* no branch assigns it.
_initialize_trace(path, size) ==
    LET sfx == suffix(path)
        r == IF sfx = TrcSuffix
             THEN [trace_path |-> Some(parent(path)),
                   trace_name |-> Some(PathName(path)), exc |-> ""]
             ELSE IF Truthy(path) /\ sfx = <<>>
             THEN [trace_path |-> Some(path), trace_name |-> None, exc |-> ""]
             ELSE IF ~Truthy(path)
             THEN [trace_path |-> Some(cwd), trace_name |-> None, exc |-> ""]
             ELSE IF sfx \notin {TrcSuffix, <<>>}
             THEN [trace_path |-> Some(path), trace_name |-> None, exc |-> "ValueError"]
             ELSE [trace_path |-> Some(path), trace_name |-> None, exc |-> ""]
    IN [trace_path |-> r.trace_path, trace_name |-> r.trace_name, exc |-> r.exc,
        trace_size |-> IF r.exc # "" THEN size ELSE CheckedTraceSize(size)]

\* ------------------------------------------------------------------------
\* CCPCanCan._pcan_set_value
\* ------------------------------------------------------------------------
\* The exception it raises ("" for none).  sv is what SetValue does ("ok",
\* "raise", "nonok"), text the exception GetErrorText raises ("" for none).
_pcan_set_value(sv, text) ==
    IF sv = "raise" THEN "RuntimeError"
    ELSE IF sv = "nonok" THEN (IF text = "" THEN "RuntimeError" ELSE text)
    ELSE ""

\* ------------------------------------------------------------------------
\* CCPCanCan._pcan_configure_trace
\* ------------------------------------------------------------------------
\* The steps of one run, in the order of the code.  "mkdir" is the
\* exists()/mkdir() of the trace directory, the others are the parameters
\* of the SetValue calls.
TraceSteps_activate_first(path, size, darwin) ==
    <<"PCAN_TRACE_STATUS">>
    \o (IF path # None THEN <<"mkdir", "PCAN_TRACE_LOCATION">> ELSE <<>>)
    \o (IF ~darwin
        THEN <<"TRACE_FILE_SEGMENTED">>
             \o (IF size # DefaultTraceSize THEN <<"PCAN_TRACE_SIZE">> ELSE <<>>)
        ELSE <<>>)
    \o <<"PCAN_TRACE_CONFIGURE">>

TraceSteps(path, size, darwin) ==
    (IF path # None THEN <<"mkdir", "PCAN_TRACE_LOCATION">> ELSE <<>>)
    \o (IF ~darwin
        THEN <<"TRACE_FILE_SEGMENTED">>
             \o (IF size # DefaultTraceSize THEN <<"PCAN_TRACE_SIZE">> ELSE <<>>)
        ELSE <<>>)
    \o <<"PCAN_TRACE_CONFIGURE", "PCAN_TRACE_STATUS">>

\* Runs the steps until one fails.  failStep is the step at which the
\* environment fails; log collects the SetValue calls issued.
RECURSIVE RunSteps(_, _, _, _, _)
RunSteps(steps, failStep, sv, text, log) ==
    IF steps = <<>> THEN [log |-> log, exc |-> ""]
    ELSE LET st == Head(steps) IN
         IF st = "mkdir"
         THEN IF failStep = "mkdir" THEN [log |-> log, exc |-> "OSError"]
              ELSE RunSteps(Tail(steps), failStep, sv, text, log)
         ELSE LET e == IF st = failStep THEN _pcan_set_value(sv, text) ELSE ""
              IN IF e # "" THEN [log |-> Append(log, st), exc |-> e]
                 ELSE RunSteps(Tail(steps), failStep, sv, text, Append(log, st))

\* The file-name policy passed with PCAN_TRACE_CONFIGURE.
pcan_path_argument(path) ==
    IF path = None THEN "TRACE_FILE_OVERWRITE" ELSE "TRACE_FILE_DATE|TRACE_FILE_TIME"

\* except RuntimeError / except OSError
Caught(exc) == exc \in {"RuntimeError", "OSError"}

_pcan_configure_trace_counts_attempts(path, size, count, failStep, sv, text, darwin) ==
    IF failStep = "getattr"
    THEN [log |-> <<>>, exc |-> "AttributeError", raised |-> "AttributeError",
          trc_count |-> count, policy |-> pcan_path_argument(path)]
    ELSE LET r == RunSteps(TraceSteps(path, size, darwin), failStep, sv, text, <<>>)
         IN [log |-> r.log, exc |-> r.exc, policy |-> pcan_path_argument(path),
             raised |-> IF Caught(r.exc) THEN "" ELSE r.exc,
             trc_count |-> count + 1]

\* path is self.trace_path, count is self.trc_count.  The result: the
\* SetValue calls issued, the exception raised inside the run, the exception
\* that leaves the method ("" for none), the new self.trc_count and the
\* file-name policy chosen.
_pcan_configure_trace(path, size, count, failStep, sv, text, darwin) ==
    IF failStep = "getattr"
    THEN [log |-> <<>>, exc |-> "AttributeError", raised |-> "AttributeError",
          trc_count |-> count, policy |-> pcan_path_argument(path)]
    ELSE LET r == RunSteps(TraceSteps(path, size, darwin), failStep, sv, text, <<>>)
         IN [log |-> r.log, exc |-> r.exc, policy |-> pcan_path_argument(path),
             raised |-> IF Caught(r.exc) THEN "" ELSE r.exc,
             trc_count |-> IF r.exc = "" THEN count + 1 ELSE count]

\* SetValue(PCAN_TRACE_STATUS, PCAN_PARAMETER_ON) was issued and returned OK
Activated(c) ==
    c.exc = "" /\ c.log # <<>> /\ c.log[Len(c.log)] = "PCAN_TRACE_STATUS"

\* The policy passed to the hardware: that of the PCAN_TRACE_CONFIGURE call,
\* if it was issued.
PolicyIssued(c) ==
    IF \E i \in 1..Len(c.log) : c.log[i] = "PCAN_TRACE_CONFIGURE" THEN c.policy ELSE "-"

\* How the run failed, for the observation of the call.
CfgOutcome(c) ==
    IF c.exc = "" THEN "ok"
    ELSE IF c.exc = "AttributeError" /\ c.log = <<>> THEN "getattr"
    ELSE IF c.log = <<>> THEN "mkdir"
    ELSE c.log[Len(c.log)]

FailSteps == {"none", "getattr", "mkdir", "PCAN_TRACE_LOCATION", "TRACE_FILE_SEGMENTED",
              "PCAN_TRACE_SIZE", "PCAN_TRACE_CONFIGURE", "PCAN_TRACE_STATUS"}
\* What SetValue does at the failing step, and what GetErrorText raises.
SetValueFailures == {<<"raise", "">>, <<"nonok", "">>, <<"nonok", "OSError">>,
                     <<"nonok", "TypeError">>}

\* ------------------------------------------------------------------------
\* CCPCanCan._cc_open
\* ------------------------------------------------------------------------
\* self.bus = can.interface.Bus(...): the session the old handle b named,
\* if it is still live, is left without a handle.
Replaced(b, sessions) == IF b = None THEN {} ELSE {b[1]} \cap sessions

OpenAcquiresDiag_unguarded(logging, raw) == logging

OpenAcquiresDiag_always(logging, raw) == raw = None

\* if self.logging_activated and self.raw_pcan_interface is None
OpenAcquiresDiag(logging, raw) == logging /\ raw = None

CCPCanCan_cc_open(busOut, diagOut, failStep, svf, darwin) ==
    LET held == bus # None
        id == nbus + 1
        c == _pcan_configure_trace(trace_path, trace_size, trc_count, failStep,
                                   svf[1], svf[2], darwin)
        call == [Call EXCEPT !.op = "open", !.held = held, !.bus_out = busOut]
    IN /\ backend = "pcan" /\ ~deleted /\ nbus < MaxOpens
       /\ nbus' = id
       /\ IF busOut = "raise"
          THEN /\ last' = [call EXCEPT !.raised = TRUE]
               /\ UNCHANGED <<bus, live, orphaned, raw_pcan_interface, trc_count,
                              diagAcquired, activations, traceActive>>
          ELSE /\ bus' = Some(id)
               /\ live' = live \cup {id}
               /\ orphaned' = orphaned \cup Replaced(bus, live)
               /\ IF ~OpenAcquiresDiag(logging_activated, raw_pcan_interface)
                  THEN /\ last' = call
                       /\ UNCHANGED <<raw_pcan_interface, trc_count, diagAcquired,
                                      activations, traceActive>>
                  ELSE IF diagOut = "raise"
                  THEN /\ last' = [call EXCEPT !.raised = TRUE, !.diag = "raise"]
                       /\ UNCHANGED <<raw_pcan_interface, trc_count, diagAcquired,
                                      activations, traceActive>>
                  ELSE /\ raw_pcan_interface' = Some(diagAcquired + 1)
                       /\ diagAcquired' = diagAcquired + 1
                       /\ trc_count' = c.trc_count
                       /\ activations' = activations + (IF Activated(c) THEN 1 ELSE 0)
                       /\ traceActive' = (traceActive \/ Activated(c))
                       /\ last' = [call EXCEPT !.raised = (c.raised # ""),
                                               !.diag = "ok",
                                               !.cfg = CfgOutcome(c),
                                               !.kind = c.exc,
                                               !.log = c.log,
                                               !.policy = PolicyIssued(c)]
       /\ UNCHANGED <<config, deleted, fsvars, diagCleared, merge>>

\* ------------------------------------------------------------------------
\* CCPCanCan._cc_close
\* ------------------------------------------------------------------------
\* The exception that leaves the release of the diagnostic handle ("" for
\* none): Uninitialize raising is caught, a failing GetErrorText is not.
\* uninit: "ok", "raise", "nonok"; text: what GetErrorText raises.
ReleaseRaises(uninit, text) ==
    IF uninit = "nonok" /\ text # "" THEN text ELSE ""

UninitOutcomes == {<<"ok", "">>, <<"raise", "">>, <<"nonok", "">>, <<"nonok", "TypeError">>}
ShutdownOutcomes == {"ok", "raise", "raise_released"}

BusAfterClose_cleared(b, shutdown) == None

\* self.bus.shutdown(); self.bus = None: the assignment is not reached when
\* shutdown raises.
BusAfterClose(b, shutdown) == IF shutdown = "ok" THEN None ELSE b

\* The bus session a shutdown call leaves alive.
AfterShutdown(sessions, b, shutdown) ==
    IF shutdown = "raise" THEN sessions ELSE sessions \ {b[1]}

CCPCanCan_cc_close(shutdown, un) ==
    LET held == bus # None
        call == [Call EXCEPT !.op = "close", !.held = held]
        \* None.Uninitialize raises AttributeError, which is caught
        uninit == IF raw_pcan_interface = None THEN "raise" ELSE un[1]
        exc == ReleaseRaises(uninit, un[2])
    IN /\ backend = "pcan" /\ ~deleted
       /\ IF ~held
          THEN \* None.shutdown(): AttributeError
               /\ last' = [call EXCEPT !.raised = TRUE]
               /\ UNCHANGED <<bus, live, raw_pcan_interface, diagCleared, traceActive>>
          ELSE IF shutdown # "ok"
          THEN /\ last' = [call EXCEPT !.raised = TRUE, !.shutdown = shutdown]
               /\ live' = AfterShutdown(live, bus, shutdown)
               /\ bus' = BusAfterClose(bus, shutdown)
               /\ UNCHANGED <<raw_pcan_interface, diagCleared, traceActive>>
          ELSE /\ live' = AfterShutdown(live, bus, shutdown)
               /\ bus' = BusAfterClose(bus, shutdown)
               /\ traceActive' = FALSE
               /\ IF logging_activated
                  THEN /\ raw_pcan_interface' = None
                       /\ diagCleared' = diagCleared
                                         + (IF raw_pcan_interface # None THEN 1 ELSE 0)
                       /\ last' = [call EXCEPT !.raised = (exc # ""),
                                               !.shutdown = "ok",
                                               !.uninit = uninit,
                                               !.kind = exc]
                  ELSE /\ last' = [call EXCEPT !.shutdown = "ok"]
                       /\ UNCHANGED <<raw_pcan_interface, diagCleared>>
       /\ UNCHANGED <<config, deleted, fsvars, trc_count, nbus, diagAcquired,
                      activations, merge, orphaned>>

\* ------------------------------------------------------------------------
\* CCVectorCan._cc_open, CCVectorCan._cc_close
\* ------------------------------------------------------------------------
CCVectorCan_cc_open(busOut) ==
    LET id == nbus + 1
        call == [Call EXCEPT !.op = "open", !.held = (bus # None), !.bus_out = busOut]
    IN /\ backend = "vector" /\ nbus < MaxOpens
       /\ nbus' = id
       /\ IF busOut = "raise"
          THEN /\ last' = [call EXCEPT !.raised = TRUE]
               /\ UNCHANGED <<bus, live, orphaned>>
          ELSE /\ bus' = Some(id)
               /\ live' = live \cup {id}
               /\ orphaned' = orphaned \cup Replaced(bus, live)
               /\ last' = call
       /\ UNCHANGED <<config, raw_pcan_interface, trc_count, deleted, traceActive,
                      fsvars, diagAcquired, diagCleared, activations, merge>>

CCVectorCan_cc_close(shutdown) ==
    LET held == bus # None
        call == [Call EXCEPT !.op = "close", !.held = held]
    IN /\ backend = "vector"
       /\ IF ~held
          THEN /\ last' = [call EXCEPT !.raised = TRUE]
               /\ UNCHANGED <<bus, live>>
          ELSE IF shutdown # "ok"
          THEN /\ last' = [call EXCEPT !.raised = TRUE, !.shutdown = shutdown]
               /\ live' = AfterShutdown(live, bus, shutdown)
               /\ bus' = BusAfterClose(bus, shutdown)
          ELSE /\ live' = AfterShutdown(live, bus, shutdown)
               /\ bus' = BusAfterClose(bus, shutdown)
               /\ last' = [call EXCEPT !.shutdown = "ok"]
       /\ UNCHANGED <<config, raw_pcan_interface, trc_count, deleted, traceActive,
                      fsvars, nbus, diagAcquired, diagCleared, activations, merge, orphaned>>

\* ------------------------------------------------------------------------
\* _cc_send
\* ------------------------------------------------------------------------
\* Python's "a or b" on optional integers: None and 0 are falsy.
Falsy(x) == x = None \/ x = Some(0)
Or(a, b) == IF Falsy(a) THEN b ELSE a

\* remote_id = remote_id or self.remote_id
CCPCanCan_arbitration_id(rid, default) == Or(rid, default)

\* if remote_id is None: remote_id = self.remote_id
CCVectorCan_arbitration_id(rid, default) == IF rid = None THEN default ELSE rid

RemoteIds == {None, Some(0), Some(3)}

\* bitrate_switch of the frame: self.enable_brs (CCPCanCan); not passed to
\* can.Message, whose default is False (CCVectorCan).
bitrate_switch == IF backend = "pcan" THEN enable_brs ELSE FALSE

\* sendOut: what bus.send does ("ok", "raise").  A failure of bus.send, and
\* the AttributeError of None.send, leave the method.  The frame's fields
\* are recorded as <<is_extended_id, is_fd, bitrate_switch>>; its payload is
\* not modelled.
_cc_send(rid, sendOut) ==
    LET id == IF backend = "pcan" THEN CCPCanCan_arbitration_id(rid, remote_id)
              ELSE CCVectorCan_arbitration_id(rid, remote_id)
    IN /\ ~deleted
       /\ last' = [Call EXCEPT !.op = "send", !.held = (bus # None),
                               !.raised = (bus = None \/ sendOut = "raise"),
                               !.rid = rid,
                               !.arbitration_id = id,
                               !.flags = <<is_extended_id, is_fd, bitrate_switch>>]
       /\ UNCHANGED <<config, bus, raw_pcan_interface, trc_count, deleted, live, nbus,
                      traceActive, fsvars, diagAcquired, diagCleared, activations,
                      merge, orphaned>>

\* ------------------------------------------------------------------------
\* _cc_receive
\* ------------------------------------------------------------------------
\* timeout or self.timeout (CCPCanCan); timeout as given (CCVectorCan).
\* An omitted timeout is the parameter's default.
CCPCanCan_wait_as_given(timeout) ==
    IF timeout = None THEN Some(ReceiveDefaultTimeout) ELSE timeout

CCPCanCan_wait(timeout) ==
    Or(IF timeout = None THEN Some(ReceiveDefaultTimeout) ELSE timeout,
       Some(ChannelTimeout))
CCVectorCan_wait(timeout) ==
    IF timeout = None THEN Some(ReceiveDefaultTimeout) ELSE timeout

Timeouts == {None, Some(0), Some(50)}

\* What bus.recv does: it returns a frame, returns None, raises can.CanError,
\* raises another Exception, or is interrupted by a BaseException that is
\* not an Exception (KeyboardInterrupt, SystemExit).
RecvFailures == {"CanError", "Exception"}
RecvOutcomes == {"frame", "none"} \cup RecvFailures
Interrupts == {"KeyboardInterrupt"}

\* What becomes of the payload of a frame: returned as it is (CCPCanCan;
\* CCVectorCan with raw=True), or passed to Message.parse_packet, which
\* returns a message or raises (CCVectorCan with raw=False).
ParseOutcomes == {"raw", "parsed", "raise"}

CCPCanCan_catches_can_error_only(exc) == exc = "CanError"

\* except can.CanError / except Exception
CCPCanCan_catches(exc) == exc \in {"CanError", "Exception"}

\* except BaseException
CCVectorCan_catches(exc) == TRUE

\* recvOut: what bus.recv does.  None.recv raises AttributeError, an
\* Exception.  The result is "frame" (payload and identifier), "message"
\* (parsed message and identifier), "nothing", or "-" when the call raised.
_cc_receive(timeout, recvOut, parse) ==
    LET out == IF bus = None THEN "Exception" ELSE recvOut
        exc == IF out \in {"frame", "none"}
               THEN (IF out = "frame" /\ parse = "raise" THEN "Exception" ELSE "")
               ELSE out
        caught == IF backend = "pcan" THEN CCPCanCan_catches(exc)
                  ELSE CCVectorCan_catches(exc)
    IN /\ ~deleted
       /\ backend = "pcan" => parse = "raw"
       /\ last' = [Call EXCEPT !.op = "receive", !.held = (bus # None),
                               !.recv = out,
                               !.timeout = timeout,
                               !.parse = IF out = "frame" THEN parse ELSE "-",
                               !.raised = (exc # "" /\ ~caught),
                               !.wait = IF backend = "pcan" THEN CCPCanCan_wait(timeout)
                                        ELSE CCVectorCan_wait(timeout),
                               !.result = IF exc # ""
                                          THEN (IF caught THEN "nothing" ELSE "-")
                                          ELSE IF out = "none" THEN "nothing"
                                          ELSE IF parse = "parsed" THEN "message"
                                          ELSE "frame"]
       /\ UNCHANGED <<config, bus, raw_pcan_interface, trc_count, deleted, live, nbus,
                      traceActive, fsvars, diagAcquired, diagCleared, activations,
                      merge, orphaned>>

\* ------------------------------------------------------------------------
\* The hardware logger
\* ------------------------------------------------------------------------
\* While tracing is active the logger writes segment files, named by date
\* and time, into the trace directory.
HwWriteSegmentOf(n) ==
    /\ traceActive /\ nsegs < MaxSegs
    /\ LET name == SegNames[nsegs + 1]
       IN files' = [f \in DOMAIN files \cup {name} |->
                       IF f = name THEN File(clock, TraceLines(name, n))
                       ELSE files[f]]
    /\ clock' = clock + 1
    /\ nsegs' = nsegs + 1
    /\ UNCHANGED <<config, bus, raw_pcan_interface, trc_count, deleted, live, nbus,
                   traceActive, last, diagAcquired, diagCleared, activations, merge, orphaned>>

HwWriteSegment == HwWriteSegmentOf(SegBodyLen)

\* Body lengths of the segment files: short ones, and ones whose message
\* numbers reach two digits.
SegBodyLens == {SegBodyLen, 10}

HwWriteAnySegment == \E n \in SegBodyLens : HwWriteSegmentOf(n)

\* ------------------------------------------------------------------------
\* CCPCanCan.__del__
\* ------------------------------------------------------------------------
NoMerge == [runs |-> 0, K |-> 0, selected |-> <<>>, target |-> None, exc |-> "",
            before |-> <<>>]

__del__(posix) ==
    /\ backend = "pcan" /\ ~deleted
    /\ deleted' = TRUE
    /\ IF logging_activated
       THEN LET r == _merge_trc(files, clock, trc_count, trace_name, posix)
            IN /\ files' = r.files
               /\ clock' = r.clock
               /\ merge' = [runs |-> merge.runs + 1, K |-> trc_count,
                            selected |-> r.selected, target |-> r.target,
                            exc |-> r.exc, before |-> files]
               /\ last' = [Call EXCEPT !.op = "del", !.held = (bus # None),
                                       !.raised = (r.exc # ""), !.kind = r.exc]
       ELSE /\ last' = [Call EXCEPT !.op = "del", !.held = (bus # None)]
            /\ UNCHANGED <<files, clock, merge>>
    /\ UNCHANGED <<config, bus, raw_pcan_interface, trc_count, live, nbus, traceActive,
                   nsegs, diagAcquired, diagCleared, activations, orphaned>>

\* ------------------------------------------------------------------------
\* Initial states
\* ------------------------------------------------------------------------
\* Trace directories the instance may find: files of earlier runs, all
\* older than anything written during the life of the instance.
OldTrace == TraceLines("old1.trc", 1)
OldLog == TraceLines("log.trc", 2)
\* a trace file cut short, shorter than a header
ShortTrace == SubSeq(TraceLines("old2.trc", 0), 1, 2)
Notes == <<<<"n", "\n">>>>

InitDirs ==
    { [n \in {"notes.txt"} |-> File(3, Notes)],
      [n \in {"old1.trc", "notes.txt"} |->
          IF n = "old1.trc" THEN File(1, OldTrace) ELSE File(3, Notes)],
      [n \in {"old1.trc", "old2.trc"} |->
          IF n = "old1.trc" THEN File(1, OldTrace) ELSE File(2, ShortTrace)],
      [n \in {"log.trc"} |-> File(2, OldLog)],
      [n \in {"old1.trc", "log.trc"} |->
          IF n = "old1.trc" THEN File(1, OldTrace) ELSE File(2, OldLog)] }
FirstClock == 4

\* The state after __init__, for a given configuration and trace directory.
Constructed ==
    /\ bus = None
    /\ raw_pcan_interface = None
    /\ trc_count = 0
    /\ deleted = FALSE
    /\ live = {}
    /\ nbus = 0
    /\ traceActive = FALSE
    /\ clock = FirstClock
    /\ nsegs = 0
    /\ last = Call
    /\ diagAcquired = 0
    /\ diagCleared = 0
    /\ activations = 0
    /\ merge = NoMerge
    /\ orphaned = {}

\* A channel constructed with the default frame flags and the trace path
\* logs, or logs/<trace_name>.
DefaultTrace ==
    /\ trace_path = Some(Path(<<"logs">>))
    /\ ctor = [trace_path |-> IF trace_name = None THEN <<"logs">>
                              ELSE <<"logs", trace_name[1]>>,
               trace_size |-> trace_size, done |-> TRUE, raised |-> FALSE,
               exc |-> ""]

DefaultChannel ==
    /\ DefaultTrace
    /\ is_fd = TRUE
    /\ is_extended_id = FALSE
    /\ enable_brs = FALSE

\* ------------------------------------------------------------------------
\* Spec: the life cycle of a channel of either backend, with every outcome
\* of every SDK call.
\* ------------------------------------------------------------------------
Init ==
    /\ backend \in {"pcan", "vector"}
    /\ IF backend = "pcan"
       THEN /\ logging_activated \in BOOLEAN
            /\ trace_size \in {DefaultTraceSize, 50}
       ELSE /\ logging_activated = FALSE
            /\ trace_size = DefaultTraceSize
    /\ trace_name = None
    /\ remote_id = None
    /\ DefaultChannel
    /\ files = [n \in {"old1.trc", "notes.txt"} |->
                   IF n = "old1.trc" THEN File(1, OldTrace) ELSE File(3, Notes)]
    /\ Constructed

\* Inputs that no call reads are fixed, so that each behaviour of the SDK
\* is explored once.
OpenInput(busOut, diagOut, failStep, svf, darwin) ==
    /\ (busOut = "raise" \/ ~OpenAcquiresDiag(logging_activated, raw_pcan_interface))
          => diagOut = "ok"
    /\ (busOut = "raise" \/ diagOut = "raise"
        \/ ~OpenAcquiresDiag(logging_activated, raw_pcan_interface))
          => (failStep = "none" /\ ~darwin)
    /\ failStep \in {"none", "getattr", "mkdir"} => svf = <<"raise", "">>
    /\ failStep = "getattr" => ~darwin

Open ==
    \/ \E busOut \in {"ok", "raise"}, diagOut \in {"ok", "raise"},
          failStep \in FailSteps, svf \in SetValueFailures, darwin \in BOOLEAN :
          /\ OpenInput(busOut, diagOut, failStep, svf, darwin)
          /\ CCPCanCan_cc_open(busOut, diagOut, failStep, svf, darwin)
    \/ \E busOut \in {"ok", "raise"} : CCVectorCan_cc_open(busOut)

Close ==
    \/ \E shutdown \in ShutdownOutcomes, un \in UninitOutcomes :
          /\ (bus = None \/ shutdown # "ok" \/ ~logging_activated) => un = <<"ok", "">>
          /\ bus = None => shutdown = "ok"
          /\ CCPCanCan_cc_close(shutdown, un)
    \/ \E shutdown \in ShutdownOutcomes :
          /\ bus = None => shutdown = "ok"
          /\ CCVectorCan_cc_close(shutdown)

Send == \E rid \in RemoteIds, sendOut \in {"ok", "raise"} : _cc_send(rid, sendOut)

\* A receive call with any timeout, on a bus of any behaviour.
ReceiveAny ==
    \E timeout \in Timeouts, recvOut \in RecvOutcomes \cup Interrupts,
       parse \in ParseOutcomes :
          /\ (bus = None \/ recvOut # "frame") => parse = "raw"
          /\ bus = None => recvOut = "Exception"
          /\ _cc_receive(timeout, recvOut, parse)

\* The timeout is varied for the calls that wait it out.
Receive ==
    \E timeout \in Timeouts, recvOut \in RecvOutcomes \cup Interrupts,
       parse \in ParseOutcomes :
          /\ (bus = None \/ recvOut # "frame") => parse = "raw"
          /\ bus = None => recvOut = "Exception"
          /\ recvOut # "none" => timeout = None
          /\ _cc_receive(timeout, recvOut, parse)

Del == \E posix \in BOOLEAN : __del__(posix)

Next == Open \/ Close \/ Send \/ Receive \/ HwWriteSegment \/ Del

Spec == Init /\ [][Next]_vars

\* ------------------------------------------------------------------------
\* SpecMerge: a CCPCanCan channel with logging activated, over every trace
\* directory and trace name, with an SDK whose bus calls succeed and whose
\* trace configuration either succeeds or is refused at its last step.
\* ------------------------------------------------------------------------
InitMerge ==
    /\ backend = "pcan"
    /\ logging_activated = TRUE
    /\ trace_name \in {None, Some("log.trc")}
    /\ trace_size = DefaultTraceSize
    /\ remote_id = None
    /\ DefaultChannel
    /\ files \in InitDirs
    /\ Constructed

OpenTraced ==
    \E failStep \in {"none", "PCAN_TRACE_STATUS"} :
        /\ bus = None
        /\ CCPCanCan_cc_open("ok", "ok", failStep, <<"nonok", "">>, FALSE)

CloseClean == CCPCanCan_cc_close("ok", <<"ok", "">>)

NextMerge == OpenTraced \/ CloseClean \/ HwWriteAnySegment \/ Del

SpecMerge == InitMerge /\ [][NextMerge]_vars

\* ------------------------------------------------------------------------
\* SpecIO: send and receive on channels of both backends, with every frame
\* flag and default identifier of the configuration, on an SDK whose open
\* and close succeed.
\* ------------------------------------------------------------------------
InitIO ==
    /\ backend \in {"pcan", "vector"}
    /\ logging_activated = FALSE
    /\ trace_name = None
    /\ trace_size = DefaultTraceSize
    /\ DefaultTrace
    /\ is_fd \in BOOLEAN
    /\ is_extended_id \in BOOLEAN
    /\ IF backend = "pcan"
       THEN /\ enable_brs \in BOOLEAN
            /\ remote_id \in {None, Some(5)}
       ELSE /\ enable_brs = FALSE
            /\ remote_id = None
    /\ files = [n \in {"notes.txt"} |-> File(3, Notes)]
    /\ Constructed

OpenOk ==
    /\ bus = None
    /\ \/ CCPCanCan_cc_open("ok", "ok", "none", <<"raise", "">>, FALSE)
       \/ CCVectorCan_cc_open("ok")

CloseOk ==
    /\ bus # None
    /\ \/ CCPCanCan_cc_close("ok", <<"ok", "">>)
       \/ CCVectorCan_cc_close("ok")

NextIO == OpenOk \/ CloseOk \/ Send \/ ReceiveAny

SpecIO == InitIO /\ [][NextIO]_vars

\* ------------------------------------------------------------------------
\* SpecInit: __init__ of a CCPCanCan channel with logging activated, for
\* every trace path and trace size, followed by an open whose trace
\* configuration succeeds or is refused.
\* ------------------------------------------------------------------------
\* The trace_path arguments, as the components Path() splits them into:
\* "", "logs", "log.trc", "logs/log.trc", "logs.d/run.1.trc", "logs/.trc",
\* "logs.d", "logs/v1.2", "logs/log.txt", "logs/log.TRC".
PathArgs ==
    { <<>>, <<"logs">>, <<"log.trc">>, <<"logs", "log.trc">>,
      <<"logs.d", "run.1.trc">>, <<"logs", ".trc">>, <<"logs.d">>,
      <<"logs", "v1.2">>, <<"logs", "log.txt">>, <<"logs", "log.TRC">> }

SizeArgs == {-1, 0, 1, 2, DefaultTraceSize, 50, MaxTraceSize - 1, MaxTraceSize,
             MaxTraceSize + 1, 1000}

\* The state in which __init__ calls _initialize_trace.
InitCtor ==
    /\ backend = "pcan"
    /\ logging_activated = TRUE
    /\ \E a \in PathArgs, size \in SizeArgs :
          /\ ctor = [trace_path |-> a, trace_size |-> size,
                     done |-> FALSE, raised |-> FALSE, exc |-> ""]
          /\ trace_path = Some(Path(a))
          /\ trace_size = size
    /\ trace_name = None
    /\ remote_id = None
    /\ is_fd = TRUE
    /\ is_extended_id = FALSE
    /\ enable_brs = FALSE
    /\ files = [n \in {"notes.txt"} |-> File(3, Notes)]
    /\ Constructed

Initialize ==
    /\ ~ctor.done
    /\ LET r == _initialize_trace(trace_path[1], trace_size)
       IN /\ trace_path' = r.trace_path
          /\ trace_name' = r.trace_name
          /\ trace_size' = r.trace_size
          /\ ctor' = [ctor EXCEPT !.done = TRUE, !.raised = (r.exc # ""),
                                  !.exc = r.exc]
          /\ last' = [Call EXCEPT !.op = "init", !.raised = (r.exc # ""),
                                  !.kind = r.exc]
    /\ UNCHANGED <<backend, logging_activated, remote_id, is_fd, is_extended_id,
                   enable_brs, bus, raw_pcan_interface, trc_count, deleted, live, nbus,
                   traceActive, fsvars, diagAcquired, diagCleared, activations,
                   merge, orphaned>>

\* An open of the constructed channel.
OpenConstructed ==
    \E failStep \in {"none", "PCAN_TRACE_LOCATION", "PCAN_TRACE_STATUS"},
       darwin \in BOOLEAN :
        /\ ctor.done /\ ~ctor.raised
        /\ bus = None
        /\ CCPCanCan_cc_open("ok", "ok", failStep, <<"nonok", "">>, darwin)

CloseConstructed ==
    /\ ctor.done /\ ~ctor.raised
    /\ bus # None
    /\ CCPCanCan_cc_close("ok", <<"ok", "">>)

NextInit == Initialize \/ OpenConstructed \/ CloseConstructed

SpecInit == InitCtor /\ [][NextInit]_vars

\* ------------------------------------------------------------------------
\* SpecRemerge: SpecMerge, and _merge_trc called once more after a merge of
\* segment files that ran to its end.
\* ------------------------------------------------------------------------
MergeAgain ==
    /\ deleted /\ merge.runs = 1 /\ merge.K >= 1 /\ merge.exc = ""
    /\ merge.selected # <<>>
    /\ \A i \in 1..Len(merge.selected) :
          \E k \in 1..nsegs : merge.selected[i] = SegNames[k]
    \* nothing was written to the directory since the merge
    /\ \A f \in DOMAIN files : files[f].mtime <= files[merge.target[1]].mtime
    /\ \E posix \in BOOLEAN :
          LET r == _merge_trc(files, clock, trc_count, trace_name, posix)
          IN /\ files' = r.files
             /\ clock' = r.clock
             /\ merge' = [runs |-> 2, K |-> trc_count,
                          selected |-> r.selected, target |-> r.target,
                          exc |-> r.exc, before |-> files]
             /\ last' = [Call EXCEPT !.op = "merge", !.held = (bus # None),
                                     !.raised = (r.exc # ""), !.kind = r.exc]
    /\ UNCHANGED <<config, bus, raw_pcan_interface, trc_count, deleted, live, nbus,
                   traceActive, nsegs, diagAcquired, diagCleared, activations, orphaned>>

NextRemerge == NextMerge \/ MergeAgain

SpecRemerge == InitMerge /\ [][NextRemerge]_vars

\* ------------------------------------------------------------------------
\* SpecMergeSteps: SpecMerge with the merge of __del__ taken one file
\* operation at a time, each of which the file system may refuse.
\* merge.pending holds the files the loop has still to process, merge.step
\* the next operation: "append", "remove", "fix", or "done".
\* ------------------------------------------------------------------------
\* What a file operation does: it succeeds or raises OSError; an append may
\* also raise after it wrote the first of its lines.
FileOutcomes == {"ok", "raise"}
AppendOutcomes == {"ok", "raise", "partial"}

AppendBody_nothing(w, result_trace, file, out) ==
    IF out = "raise" THEN [w EXCEPT !.exc = "OSError"]
    ELSE IF ~Exists(w.files, file) THEN [w EXCEPT !.exc = "FileNotFoundError"]
    ELSE w

\* with open(file, "r") ...: data = trc.read().splitlines(True)
\* with open(result_trace, "a") ...: merged_trc.writelines(data[33:])
AppendBody(w, result_trace, file, out) ==
    IF out = "raise" THEN [w EXCEPT !.exc = "OSError"]
    ELSE IF ~Exists(w.files, file) THEN [w EXCEPT !.exc = "FileNotFoundError"]
    ELSE LET data == w.files[file].lines
             body == SliceFrom(data, first_message_line)
         IN IF out = "partial"
            THEN [append(w, result_trace, SubSeq(body, 1, IF body = <<>> THEN 0 ELSE 1))
                     EXCEPT !.exc = "OSError"]
            ELSE append(w, result_trace, body)

HwWriteBeforeMerge == ~deleted /\ HwWriteAnySegment

\* __del__ up to the loop of _merge_trc: the selection, the target and the
\* rename of the first file.
MergeBegin ==
    /\ backend = "pcan" /\ ~deleted /\ logging_activated
    /\ deleted' = TRUE
    /\ \E posix \in BOOLEAN, out \in FileOutcomes :
          LET list_of_traces == SliceLast(sorted(files, glob(files)), trc_count)
              w0 == World(files, clock)
              begun == [runs |-> 1, K |-> trc_count, selected |-> list_of_traces,
                        target |-> None, exc |-> "", before |-> files,
                        pending |-> <<>>, step |-> "done"]
          IN IF list_of_traces = <<>>
             THEN /\ out = "ok"
                  /\ merge' = begun
                  /\ UNCHANGED <<files, clock>>
             ELSE LET result_trace == IF trace_name = None THEN list_of_traces[1]
                                      ELSE trace_name[1]
                      w1 == IF trace_name = None THEN w0
                            ELSE IF out = "raise" THEN [w0 EXCEPT !.exc = "OSError"]
                            ELSE rename(w0, list_of_traces[1], result_trace, posix)
                  IN /\ trace_name = None => out = "ok"
                     /\ files' = w1.files
                     /\ clock' = w1.clock
                     /\ merge' = [begun EXCEPT
                                    !.target = Some(result_trace),
                                    !.exc = w1.exc,
                                    !.pending = Tail(list_of_traces),
                                    !.step = IF w1.exc # "" THEN "done"
                                             ELSE IF Tail(list_of_traces) = <<>> THEN "fix"
                                             ELSE "append"]
    /\ last' = [Call EXCEPT !.op = "del", !.held = (bus # None)]
    /\ UNCHANGED <<config, bus, raw_pcan_interface, trc_count, live, nbus, traceActive,
                   nsegs, diagAcquired, diagCleared, activations, orphaned>>

\* The read of the next file and the append of its body to the target.
MergeAppend ==
    /\ merge.runs = 1 /\ merge.step = "append"
    /\ \E out \in AppendOutcomes :
          LET w == AppendBody(World(files, clock), merge.target[1],
                              Head(merge.pending), out)
          IN /\ files' = w.files
             /\ clock' = w.clock
             /\ merge' = [merge EXCEPT !.exc = w.exc,
                                       !.step = IF w.exc # "" THEN "done" ELSE "remove"]
    /\ UNCHANGED <<config, bus, raw_pcan_interface, trc_count, deleted, live, nbus,
                   traceActive, nsegs, last, diagAcquired, diagCleared, activations,
                   orphaned>>

\* os.remove(file), and the step to the next file of the loop.
MergeRemove ==
    /\ merge.runs = 1 /\ merge.step = "remove"
    /\ \E out \in FileOutcomes :
          LET w0 == World(files, clock)
              w == IF out = "raise" THEN [w0 EXCEPT !.exc = "OSError"]
                   ELSE remove(w0, Head(merge.pending))
          IN /\ files' = w.files
             /\ clock' = w.clock
             /\ merge' = [merge EXCEPT
                            !.exc = w.exc,
                            !.pending = IF w.exc # "" THEN @ ELSE Tail(@),
                            !.step = IF w.exc # "" THEN "done"
                                     ELSE IF Tail(merge.pending) = <<>> THEN "fix"
                                     ELSE "append"]
    /\ UNCHANGED <<config, bus, raw_pcan_interface, trc_count, deleted, live, nbus,
                   traceActive, nsegs, last, diagAcquired, diagCleared, activations,
                   orphaned>>

\* self._fix_message_numbers(result_trace, first_message_line)
MergeFix ==
    /\ merge.runs = 1 /\ merge.step = "fix"
    /\ \E out \in FileOutcomes :
          LET w0 == World(files, clock)
              w == IF out = "raise" THEN [w0 EXCEPT !.exc = "OSError"]
                   ELSE _fix_message_numbers(w0, merge.target[1], first_message_line)
          IN /\ files' = w.files
             /\ clock' = w.clock
             /\ merge' = [merge EXCEPT !.exc = w.exc, !.step = "done"]
    /\ UNCHANGED <<config, bus, raw_pcan_interface, trc_count, deleted, live, nbus,
                   traceActive, nsegs, last, diagAcquired, diagCleared, activations,
                   orphaned>>

NextMergeSteps ==
    \/ OpenTraced \/ CloseClean \/ HwWriteBeforeMerge
    \/ MergeBegin \/ MergeAppend \/ MergeRemove \/ MergeFix

SpecMergeSteps == InitMerge /\ [][NextMergeSteps]_vars

\* ------------------------------------------------------------------------
\* SpecFix: _fix_message_numbers applied to a merged trace whose body lines
\* have every shape: blank, shorter than the number field, as long as the
\* number field, longer, and not terminated.
\* ------------------------------------------------------------------------
MaxBody == 3

BodyShapes ==
    { <<"\n">>,
      <<"a", "b", "\n">>,
      <<"1", "2", "3", "4", "5", "6", "7">>,
      <<" ", " ", " ", " ", " ", "4", "2", ")", "x", "\n">> }

RECURSIVE Bodies(_)
Bodies(n) ==
    IF n = 0 THEN {<<>>}
    ELSE LET shorter == Bodies(n - 1)
         IN shorter \cup { Append(b, l) : b \in { c \in shorter : Len(c) = n - 1 },
                                          l \in BodyShapes }

InitFix ==
    /\ backend = "pcan"
    /\ logging_activated = TRUE
    /\ trace_name = Some("log.trc")
    /\ trace_size = DefaultTraceSize
    /\ remote_id = None
    /\ DefaultChannel
    /\ files \in { [n \in {"log.trc"} |-> File(1, TraceLines("m", 0) \o body)] :
                     body \in Bodies(MaxBody) }
    /\ Constructed

FixMessageNumbers ==
    /\ merge.runs = 0
    /\ LET r == _fix_message_numbers(World(files, clock), "log.trc", first_message_line)
       IN /\ files' = r.files
          /\ clock' = r.clock
          /\ merge' = [NoMerge EXCEPT !.runs = 1, !.target = Some("log.trc"),
                                      !.exc = r.exc, !.before = files]
          /\ last' = [Call EXCEPT !.op = "fix", !.raised = (r.exc # "")]
    /\ UNCHANGED <<config, bus, raw_pcan_interface, trc_count, deleted, live, nbus,
                   traceActive, nsegs, diagAcquired, diagCleared, activations, orphaned>>

NextFix == FixMessageNumbers

SpecFix == InitFix /\ [][NextFix]_vars

\* ========================================================================
\* Claims
\* ========================================================================
PcanDiag == backend = "pcan" /\ logging_activated

\* C1 (as stated): in every state reachable by open, send, receive and
\* close calls on a PCAN channel, reentrant opens included, at most one bus
\* session that was constructed and not yet shut down exists.
C1_AtMostOneLiveSession ==
    backend = "pcan" => Cardinality(live) <= 1

\* C1 (amended): as long as no open has replaced the handle of a session
\* that was still live (open was only called on a channel holding no bus
\* handle), at most one constructed and not yet shut down session exists.
C1_AtMostOneLiveSessionUnlessReopened ==
    (backend = "pcan" /\ orphaned = {}) => Cardinality(live) <= 1

\* Two opens were made, none of them on a channel holding a handle, and a
\* session is live.
C1_Witness ==
    /\ backend = "pcan" /\ orphaned = {} /\ nbus = 2
    /\ bus = Some(2) /\ live = {2}

\* C2: for an opened PCAN channel with diagnostics enabled, two closes in
\* direct succession raise on neither call, whatever Uninitialize does
\* (the first close being one whose bus shutdown and error-text lookup
\* worked).
C2_CloseTwiceNeverRaises ==
    [][(/\ PcanDiag
        /\ last.op = "close" /\ last.held /\ last.shutdown = "ok" /\ last.kind = ""
        /\ last'.op = "close" /\ last'.kind \in {"", "-"})
       => (~last.raised /\ ~last'.raised)]_vars

\* C3: a close of an open PCAN channel with diagnostics enabled, whose bus
\* shutdown worked, propagates no failure of the diagnostic release and
\* leaves the channel without a diagnostic handle.
C3_ReleaseFailureNotPropagated ==
    (PcanDiag /\ last.op = "close" /\ last.held /\ last.shutdown = "ok")
       => (~last.raised /\ raw_pcan_interface = None)

\* C4: after every close of an open channel of either backend, a close
\* whose bus shutdown failed included, the channel holds no bus handle, and
\* on PCAN with diagnostics enabled the diagnostic release was attempted.
C4_CloseClearsBus ==
    (last.op = "close" /\ last.held)
       => (bus = None /\ (PcanDiag => last.uninit # "-"))

\* C5: an open of a PCAN channel with diagnostics enabled that constructed
\* the bus and whose trace configuration failed at any step returns without
\* raising and leaves a live bus handle.
C5_TraceFailureSwallowed ==
    (PcanDiag /\ last.op = "open" /\ last.bus_out = "ok" /\ last.diag = "ok"
        /\ last.cfg # "ok")
       => (~last.raised /\ bus # None /\ bus[1] \in live)

\* C6 (as stated): the diagnostic handle is acquired at most once in the
\* lifetime of the instance.
C6_DiagAcquiredOnce ==
    PcanDiag => diagAcquired <= 1

\* C6 (amended): an open acquires a diagnostic handle only when the channel
\* holds none, so the handle is acquired at most once more than it was
\* dropped by a close.
C6_DiagAcquiredOncePerRelease ==
    PcanDiag => diagAcquired <= diagCleared + 1

\* An open that follows an open and a close has acquired a second handle.
C6_Witness ==
    PcanDiag /\ last.op = "open" /\ diagAcquired = 2 /\ diagCleared = 1
        /\ raw_pcan_interface = Some(2)

\* C7: with diagnostics enabled the merge has not run before teardown and
\* has run exactly once after it, with K the number of trace
\* configurations that completed; with diagnostics disabled it never runs.
C7_MergeOnceAtTeardown ==
    backend = "pcan" =>
        /\ ~deleted => merge.runs = 0
        /\ (deleted /\ logging_activated) => (merge.runs = 1 /\ merge.K = activations)
        /\ ~logging_activated => merge.runs = 0

\* Teardown after two opens whose trace configurations both completed.
C7_Witness ==
    /\ PcanDiag /\ deleted /\ merge.runs = 1 /\ nbus = 2
    /\ merge.K = 2 /\ diagAcquired = 2

Range(s) == {s[i] : i \in 1..Len(s)}
Merged == backend = "pcan" /\ merge.runs = 1
\* The .trc files found by the merge, and those among them it selected.
Found == glob(merge.before)
Selected == Range(merge.selected)
Untouched(f) == f \in DOMAIN files /\ files[f] = merge.before[f]

\* C8: a merge with K = 0, or with no .trc file in the trace directory,
\* changes no file of the directory and raises no error.
C8_NothingToMergeIsNoOp ==
    (Merged /\ (merge.K = 0 \/ Found = {}))
       => (files = merge.before /\ merge.exc = "")

\* The files selected are K files, in ascending order of modification
\* time, and every .trc file left out is older than each of them.
SelectedAreLatest ==
    /\ Len(merge.selected) = merge.K
    /\ Cardinality(Selected) = merge.K
    /\ Selected \subseteq Found
    /\ \A i, j \in 1..Len(merge.selected) :
          i < j => merge.before[merge.selected[i]].mtime
                      < merge.before[merge.selected[j]].mtime
    /\ \A f \in Found \ Selected, g \in Selected :
          merge.before[f].mtime < merge.before[g].mtime

\* C9 (as stated): with K >= 1 and K+M .trc files in the directory the
\* merge works on exactly the K latest files, and none of the M older files
\* is renamed, modified or deleted.
C9_OlderFilesUntouched ==
    (Merged /\ merge.K >= 1 /\ Cardinality(Found) >= merge.K)
       => (SelectedAreLatest /\ \A f \in Found \ Selected : Untouched(f))

\* C9 (amended): ... and none of the M older files is renamed, modified or
\* deleted, except an older file that bears the configured trace file
\* name, which the merge target replaces.
C9_OlderFilesUntouchedButTarget ==
    (Merged /\ merge.K >= 1 /\ Cardinality(Found) >= merge.K)
       => /\ SelectedAreLatest
          /\ \A f \in Found \ Selected : (trace_name # Some(f)) => Untouched(f)

\* A merge of the two latest files out of three or more, which went
\* through, with an older file left as it was.
C9_Witness ==
    /\ Merged /\ merge.K = 2 /\ Cardinality(Found) > 2 /\ merge.exc = ""
    /\ nsegs = 2 /\ merge.selected = <<"s1.trc", "s2.trc">>
    /\ Untouched("old1.trc")

\* The first lines of out are the lines of orig: the header lines as they
\* were, the body lines but for their message-number field.
StartsWith(out, orig) ==
    /\ Len(out) >= Len(orig)
    /\ \A j \in 1..Len(orig) :
          IF j <= first_message_line THEN out[j] = orig[j]
          ELSE SliceFrom(out[j], message_nb_index) = SliceFrom(orig[j], message_nb_index)

\* The segment files the hardware logger wrote for this instance.
Segments == {SegNames[i] : i \in 1..nsegs}

\* C10: in a merge of K >= 1 segments written by the hardware logger, the
\* target is the configured trace file name, holding the content of the
\* earliest selected segment, which is gone under its old name, when a name
\* was configured, and the earliest selected segment itself when none was;
\* the output starts with the header and body lines of that segment.
C10_MergeTarget ==
    (Merged /\ merge.K >= 1 /\ merge.selected # <<>> /\ Selected \subseteq Segments)
       => LET first == merge.selected[1]
              target == IF trace_name = None THEN first ELSE trace_name[1]
          IN /\ merge.target = Some(target)
             /\ target \in DOMAIN files
             /\ trace_name # None => first \notin DOMAIN files
             /\ StartsWith(files[target].lines, merge.before[first].lines)

\* The message-number field of a body line.
NumberField(line) == SubSeq(line, 1, message_nb_index)

RECURSIVE SumBodies(_, _)
SumBodies(fs, names) ==
    IF names = <<>> THEN 0
    ELSE (Len(fs[Head(names)].lines) - first_message_line) + SumBodies(fs, Tail(names))

\* A merge of K >= 1 segment files written by the hardware logger that ran
\* to its end.
MergedSegments ==
    /\ Merged /\ merge.K >= 1 /\ merge.exc = ""
    /\ merge.selected # <<>> /\ Selected \subseteq Segments

\* C11: after a merge of the selected segments the output has, after its
\* 33 header lines, as many body lines as the target had plus, for every
\* other selected segment, its line count minus 33; and the message numbers
\* of the body lines are 1, 2, ..., N in line order.
C11_BodyCountAndNumbers ==
    MergedSegments
       => LET out == files[merge.target[1]].lines
              N == SumBodies(merge.before, merge.selected)
          IN /\ Len(out) = first_message_line + N
             /\ \A i \in 1..N :
                   NumberField(out[first_message_line + i]) =
                      rjust(str(i), message_nb_index)

\* Two segments of different lengths were merged, one of them with message
\* numbers of two digits.
C11_Witness ==
    /\ MergedSegments /\ Len(merge.selected) = 2
    /\ SumBodies(merge.before, merge.selected) = SegBodyLen + 10
    /\ Len(files[merge.target[1]].lines) = first_message_line + SegBodyLen + 10

\* C12: renumbering changes only the first 7 characters of each body line:
\* for every body line, of every length, the rest of the line, terminator
\* included, and the length of the line are unchanged; the 33 header lines
\* are unchanged; the file has as many lines as before (nothing is left
\* over, nothing is lost).
C12_OnlyNumberFieldChanges ==
    (last.op = "fix" /\ ~last.raised)
       => LET old == merge.before["log.trc"].lines
              new == files["log.trc"].lines
          IN /\ Len(new) = Len(old)
             /\ \A j \in 1..Len(old) :
                   IF j <= first_message_line THEN new[j] = old[j]
                   ELSE /\ Len(new[j]) = Len(old[j])
                        /\ SliceFrom(new[j], message_nb_index) =
                              SliceFrom(old[j], message_nb_index)

\* C13: running the merge a second time, with the same K, after a merge
\* that succeeded renames, appends and deletes nothing and leaves the
\* content of every file, the merged trace included, as it was, also when
\* older .trc files are in the directory.
C13_SecondMergeChangesNothing ==
    [][ (merge.runs = 1 /\ merge'.runs = 2)
           => /\ merge'.exc = ""
              /\ DOMAIN files' = DOMAIN files
              /\ \A f \in DOMAIN files : files'[f].lines = files[f].lines ]_vars

\* The end-to-end scenario: trace file name log.trc, open, close, open,
\* close, teardown; both trace configurations succeeded and the logger
\* wrote one segment of 10 messages in each cycle.
EndToEnd ==
    /\ trace_name = Some("log.trc")
    /\ deleted /\ Merged /\ bus = None
    /\ nbus = 2 /\ merge.K = 2 /\ nsegs = 2
    /\ \A k \in 1..2 :
          /\ Exists(merge.before, SegNames[k])
          /\ Len(merge.before[SegNames[k]].lines) = first_message_line + 10

EndToEndResult ==
    /\ Exists(files, "log.trc")
    /\ LET out == files["log.trc"].lines
       IN /\ Len(out) = first_message_line + 20
          /\ \A i \in 1..20 :
                NumberField(out[first_message_line + i]) =
                   rjust(str(i), message_nb_index)
    /\ glob(files) = {"log.trc"}

\* C14: after the end-to-end scenario on trace path D/log.trc, D/log.trc
\* exists, has exactly 20 body lines numbered 1..20, and no other .trc
\* file remains in D.
C14_EndToEnd == EndToEnd => EndToEndResult

\* C14, amended: the same, for a directory D that held no .trc file when
\* the channel was constructed.
C14_EndToEndFreshDirectory ==
    (EndToEnd /\ glob(merge.before) = {SegNames[1], SegNames[2]}) => EndToEndResult

C14_Witness ==
    /\ EndToEnd /\ glob(merge.before) = {SegNames[1], SegNames[2]}
    /\ EndToEndResult /\ last.op = "del"

\* A receive call in which bus.recv returned or failed.
Received ==
    last.op = "receive" /\ last.recv \in RecvOutcomes

\* C15: receive never raises past the adapter: in every channel state,
\* Closed included, and for every outcome of the SDK recv call (a frame, no
\* frame, a bus error, any other failure) it returns a result; it returns
\* the received payload and identifier when a frame was retrieved and
\* "nothing" in every other case.
C15_ReceiveNeverRaises ==
    Received
       => /\ ~last.raised
          /\ (last.result \in {"frame", "message"}) <=> (last.recv = "frame")
          /\ (last.result = "nothing") <=> (last.recv # "frame")

\* C15, amended: a frame retrieved by CCVectorCan without raw mode is
\* returned as the message parsed from its payload, and as "nothing" when
\* the payload cannot be parsed.
C15_ReceiveNeverRaisesParsed ==
    Received
       => /\ ~last.raised
          /\ (last.result = "frame") <=> (last.recv = "frame" /\ last.parse = "raw")
          /\ (last.result = "message") <=> (last.recv = "frame" /\ last.parse = "parsed")
          /\ (last.result = "nothing")
                <=> (last.recv # "frame" \/ last.parse = "raise")

\* A PCAN receive on a closed channel, and one whose recv failed with
\* something that is not a bus error, returned "nothing".
C15_Witness ==
    /\ Received /\ backend = "pcan" /\ last.recv = "Exception"
    /\ last.held /\ last.result = "nothing" /\ ~last.raised

\* C16: on a send that passes a frame to the bus, the frame carries the caller's destination identifier
\* whenever one is supplied, for every identifier from 0 upward; the
\* channel's default identifier is used only when none is supplied; the
\* frame's extended-identifier, FD and bitrate-switch flags are those of
\* the channel configuration.
C16_SendUsesCallerIdentifier ==
    (last.op = "send" /\ last.held /\ ~last.raised)
       => /\ last.rid # None => last.arbitration_id = last.rid
          /\ last.rid = None => last.arbitration_id = remote_id
          /\ last.flags = <<is_extended_id, is_fd, enable_brs>>

\* _initialize_trace has run on the trace path argument a.
Initialized == ctor.done
TracePathArg == Path(ctor.trace_path)

\* C17: construction settles the trace path: for a path with the suffix
\* .trc the stored directory is the path's parent and the stored file name
\* its last component; for an empty path the directory is the current
\* working directory and no file name is fixed; for a path with no suffix
\* the directory is the path and no file name is fixed; for a path with any
\* other suffix construction fails with ValueError, and no hardware call
\* has been made.  The suffix is that of pathlib: a last component that is
\* nothing but ".trc" has none.
C17_TracePathSettled ==
    Initialized
       => LET a == TracePathArg
              sfx == suffix(a)
          IN /\ sfx = TrcSuffix
                  => /\ ~ctor.raised
                     /\ trace_path = Some(Path(SubSeq(a.parts, 1, Len(a.parts) - 1)))
                     /\ trace_name = Some(a.parts[Len(a.parts)])
             /\ a.parts = <<>>
                  => /\ ~ctor.raised
                     /\ trace_path # None /\ resolve(trace_path[1]) = cwd
                     /\ trace_name = None
             /\ (sfx = <<>> /\ a.parts # <<>>)
                  => /\ ~ctor.raised
                     /\ trace_path = Some(a)
                     /\ trace_name = None
             /\ sfx \notin {TrcSuffix, <<>>}
                  => /\ ctor.raised /\ ctor.exc = "ValueError"
                     /\ nbus = 0 /\ diagAcquired = 0 /\ bus = None

\* A path of two components ending in .trc was split into directory and
\* file name.
C17_Witness ==
    /\ Initialized /\ ~ctor.raised
    /\ ctor.trace_path = <<"logs.d", "run.1.trc">>
    /\ trace_path = Some(Path(<<"logs.d">>)) /\ trace_name = Some("run.1.trc")

\* C18: construction settles the trace size: for every integer s given,
\* the stored size is s when 0 < s <= 100 and the default 10 otherwise, and
\* construction does not fail because of the size.
C18_TraceSizeSettled ==
    (Initialized /\ suffix(TracePathArg) \in {TrcSuffix, <<>>})
       => /\ ~ctor.raised
          /\ LET s == ctor.trace_size
             IN trace_size = IF 0 < s /\ s <= 100 THEN s ELSE 10

C18_Witness ==
    /\ Initialized /\ ~ctor.raised
    /\ ctor.trace_size = 0 /\ trace_size = 10

\* The place of a SetValue parameter in a run of the trace configuration.
StepRank(st) ==
    CASE st = "PCAN_TRACE_LOCATION"  -> 1
      [] st = "TRACE_FILE_SEGMENTED" -> 2
      [] st = "PCAN_TRACE_SIZE"      -> 3
      [] st = "PCAN_TRACE_CONFIGURE" -> 4
      [] st = "PCAN_TRACE_STATUS"    -> 5
      [] OTHER                       -> 0

\* C19: in one run of the trace configuration the steps are issued in the
\* order location, segmentation (and size), configure, activate; once a
\* step fails no later step is issued, tracing is not activated and the
\* count of successful configurations is unchanged; the count grows by
\* exactly 1 if and only if every step succeeded.
C19_TraceStepsInOrder ==
    [][ (last'.op = "open" /\ last'.diag = "ok" /\ nbus' = nbus + 1)
           => LET log == last'.log
                  ok == last'.cfg = "ok"
              IN /\ \A i \in 1..Len(log) : StepRank(log[i]) > 0
                 /\ \A i \in 1..(Len(log) - 1) : StepRank(log[i]) < StepRank(log[i + 1])
                 /\ log # <<>> => log[1] = "PCAN_TRACE_LOCATION"
                 /\ ok => /\ \E i \in 1..Len(log) : log[i] = "PCAN_TRACE_CONFIGURE"
                          /\ log[Len(log)] = "PCAN_TRACE_STATUS"
                          /\ trc_count' = trc_count + 1
                          /\ activations' = activations + 1
                 /\ ~ok => /\ last'.cfg \in {"getattr", "mkdir"} => log = <<>>
                           /\ log # <<>> => last'.cfg = log[Len(log)]
                           /\ trc_count' = trc_count
                           /\ activations' = activations
                           /\ traceActive' = traceActive ]_vars

\* A run whose configure step was refused after location and segmentation
\* were issued.
C19_Witness ==
    /\ last.op = "open" /\ last.diag = "ok" /\ last.cfg = "PCAN_TRACE_CONFIGURE"
    /\ last.log = <<"PCAN_TRACE_LOCATION", "TRACE_FILE_SEGMENTED", "PCAN_TRACE_CONFIGURE">>
    /\ trc_count = 0 /\ ~traceActive

\* C20: the trace configuration applies the "always overwrite" file-name
\* policy when the channel was constructed with the trace path left
\* unspecified (empty), and the "unique name from date and time" policy
\* otherwise.
C20_OverwriteWhenPathUnspecified ==
    (last.op = "open" /\ last.policy # "-")
       => last.policy = IF ctor.trace_path = <<>> THEN "TRACE_FILE_OVERWRITE"
                        ELSE "TRACE_FILE_DATE|TRACE_FILE_TIME"

\* The body lines of a selected file, as the merge found it.
BodyBefore(f) == SliceFrom(merge.before[f].lines, first_message_line)

\* Line l is in file f, whatever its message number.
Holds(f, l) ==
    /\ Exists(files, f)
    /\ \E j \in 1..Len(files[f].lines) :
          SliceFrom(files[f].lines[j], message_nb_index) = SliceFrom(l, message_nb_index)

\* The lines of ls without their message numbers.
Unnumbered(ls) == [j \in 1..Len(ls) |-> SliceFrom(ls[j], message_nb_index)]

RECURSIVE Bodies_of(_)
Bodies_of(names) ==
    IF names = <<>> THEN <<>> ELSE BodyBefore(Head(names)) \o Bodies_of(Tail(names))

\* A merge of K >= 1 segment files written by the hardware logger, begun.
MergingSegments ==
    /\ backend = "pcan" /\ merge.runs = 1 /\ merge.K >= 1
    /\ merge.selected # <<>> /\ Selected \subseteq Segments

Waited == last.op = "receive" /\ last.held

\* C22: the wait handed to the bus by receive is the caller's timeout when
\* the caller passes a timeout other than zero, and the channel's minimal
\* default (1e-6 s) both when the caller passes zero and when the caller
\* omits the timeout, for the PCAN and the Vector backend.
C22_WaitFallsBackToChannelDefault ==
    Waited
       => last.wait = IF last.timeout \in {None, Some(0)} THEN Some(ChannelTimeout)
                      ELSE last.timeout

\* C22, amended: an omitted timeout is the default of the parameter
\* (1e-4 s) on both backends; a timeout of zero becomes the channel's
\* minimal default on PCAN and is handed on as zero on Vector.
C22_WaitFallsBackOnZeroOnPcan ==
    Waited
       => last.wait = IF last.timeout = None THEN Some(ReceiveDefaultTimeout)
                      ELSE IF last.timeout = Some(0) /\ backend = "pcan"
                      THEN Some(ChannelTimeout)
                      ELSE last.timeout

C22_Witness ==
    /\ Waited /\ backend = "pcan"
    /\ last.timeout = Some(0) /\ last.wait = Some(ChannelTimeout)

\* C23: in every state between the calls of a PCAN channel, failing calls
\* included (bus construction, creation of the diagnostic interface, bus
\* shutdown, release of the diagnostic interface), a channel that holds a
\* diagnostic handle also holds a bus handle; and with diagnostics disabled
\* the channel never holds a diagnostic handle and its count of successful
\* trace configurations stays 0.
C23_DiagHandleImpliesBusHandle ==
    backend = "pcan"
       => /\ raw_pcan_interface # None => bus # None
          /\ ~logging_activated => (raw_pcan_interface = None /\ trc_count = 0)

\* A close whose bus shutdown failed left both handles in place.
C23_Witness ==
    /\ backend = "pcan" /\ logging_activated
    /\ last.op = "close" /\ last.raised /\ last.shutdown = "raise"
    /\ raw_pcan_interface # None /\ bus # None

====
